---- MODULE Spec2Model ----
(***************************************************************************)
(* A model of the canvas of src/canvas.go: the draw state, the layer stack *)
(* and the font set of type C, its setters, DrawPath and DrawText, and the *)
(* four exports (WriteSVG, WritePDF, WriteEPS, WriteImage) with the        *)
(* per-layer writers of pathLayer and textLayer.                           *)
(*                                                                         *)
(* What an export writes is modelled as the sequence of tokens it hands to *)
(* its sink, in the order of the code's writes: one record [k, v] for each *)
(* fmt.Fprintf / w.Write / sink call.                                      *)
(***************************************************************************)
EXTENDS Integers, Sequences, FiniteSets, TLC

VARIABLES
    c,          \* the canvas *C: [w, h, layers, fonts, drawState]
    FillRule,   \* the package-level variable FillRule read by the writers
    heap,       \* backing arrays of the []float64 dash slices, by reference
    op,         \* the call that was made last: [name, args]
    out,        \* what that call wrote to its sink: [tokens, panicked]
    nsets       \* number of setter calls and writes to the caller's slice made
                \* so far (bounded by MaxSets)

vars == <<c, FillRule, heap, op, out, nsets>>

-----------------------------------------------------------------------------
(* Bounds of the model *)

MaxLayers == 2
MaxSets == 2

-----------------------------------------------------------------------------
(* Values of the packages the canvas uses *)

RGBA(r, g, b, a) == [R |-> r, G |-> g, B |-> b, A |-> a]

Black == RGBA(0, 0, 0, 255)
Transparent == RGBA(0, 0, 0, 0)
White == RGBA(255, 255, 255, 255)
Red == RGBA(255, 0, 0, 255)
HalfBlue == RGBA(0, 0, 128, 128)

\* float64 values that may be NaN
NaN == [nan |-> TRUE, v |-> 0]
Num(v) == [nan |-> FALSE, v |-> v]
IsNaN(f) == f.nan

\* the fill rules
NonZero == "NonZero"
EvenOdd == "EvenOdd"

\* cappers, by dynamic type; customCapper is a Capper implemented elsewhere
ButtCapper == "buttCapper"
RoundCapper == "roundCapper"
SquareCapper == "squareCapper"
CustomCapper == "customCapper"

\* joiners: the dynamic type, and for a miterJoiner the fields the writers
\* read of it: gapJoiner, limit (read by WriteSVG) and length (read by
\* WritePDF)
Joiner(type, gap, limit, length) ==
    [type |-> type, gapJoiner |-> gap, limit |-> limit, length |-> length]
BevelJoiner == Joiner("bevelJoiner", "none", NaN, NaN)
RoundJoiner == Joiner("roundJoiner", "none", NaN, NaN)
ArcsJoiner == Joiner("arcsJoiner", "none", NaN, NaN)
CustomJoiner == Joiner("customJoiner", "none", NaN, NaN)
miterJoiner(gap, limit, length) == Joiner("miterJoiner", gap, limit, length)
\* the joiners the package makes have one limit value: both fields hold it
MiterJoiner == miterJoiner("bevelJoiner", NaN, NaN)
MiterClipJoiner(gap, limit) == miterJoiner(gap, Num(limit), Num(limit))

\* paths: number of segments, closedness, and the transformation applied
Path(segs, closed) ==
    [segs |-> segs, closed |-> closed, x |-> 0, y |-> 0, flip |-> FALSE, rot |-> 0]
Empty(p) == p.segs = 0
Copy(p) == p
Translate(p, x, y) == [p EXCEPT !.x = @ + x, !.y = @ + y]
Scale(p, sx, sy) ==
    [p EXCEPT !.x = @ * sx, !.y = @ * sy, !.flip = IF sx * sy < 0 THEN ~@ ELSE @]
Rotate(p, rot) == [p EXCEPT !.rot = @ + rot]
Dash(p, offset, dashes) == [dash |-> p, offset |-> offset, dashes |-> dashes]
Stroke(p, width, capper, joiner) ==
    [stroke |-> p, width |-> width, capper |-> capper, joiner |-> joiner]
ToSVG(p) == [svg |-> p]
ToPS(p) == [ps |-> p]
\* the PDF path data, and whether it ends in the close operator "h"
ToPDF(p) == [pdf |-> p, h |-> "closed" \in DOMAIN p /\ p.closed]
ToRasterizer(p, dpi, w, h) == [ras |-> p, dpi |-> dpi, w |-> w, h |-> h]
toCSSColor(col) == [css |-> col]

\* texts: the fonts a text uses and the (path, color) pairs ToPaths gives
Text(name, fonts, paths) == [name |-> name, fonts |-> fonts, paths |-> paths]
ToPaths(text) == text.paths

Tok(k, v) == [k |-> k, v |-> v]

-----------------------------------------------------------------------------
(* The draw state and the layers *)

\* dash slices are references into heap: the nil slice, and the backing array
\* of defaultDrawState.dashes, which is allocated at package initialisation
NilSlice == 0
DefaultDashes == 1
Deref(hp, ref) == IF ref = NilSlice THEN <<>> ELSE hp[ref]

defaultDrawState ==
    [fillColor |-> Black, strokeColor |-> Transparent, strokeWidth |-> 1,
     strokeCapper |-> ButtCapper, strokeJoiner |-> MiterJoiner,
     dashOffset |-> 0, dashes |-> DefaultDashes]

pathLayer(path, ds) == [kind |-> "pathLayer", path |-> path, drawState |-> ds]
textLayer(text, x, y, rot) == [kind |-> "textLayer", text |-> text, x |-> x, y |-> y, rot |-> rot]

New(w, h) ==
    [w |-> w, h |-> h, layers |-> <<>>, fonts |-> {}, drawState |-> defaultDrawState]

-----------------------------------------------------------------------------
(* The setters and the draw calls, as functions of the canvas *)

SetFillColorC(cv, color) == [cv EXCEPT !.drawState.fillColor = color]

SetStrokeColorC(cv, color) == [cv EXCEPT !.drawState.strokeColor = color]

SetStrokeWidthC(cv, width) == [cv EXCEPT !.drawState.strokeWidth = width]

SetStrokeCapperC(cv, capper) == [cv EXCEPT !.drawState.strokeCapper = capper]

SetStrokeJoinerC(cv, joiner) == [cv EXCEPT !.drawState.strokeJoiner = joiner]

\* the slice the variadic parameter dashes ...float64 receives. Called with
\* the arguments listed, SetDashes(dashOffset, d1, d2), it is nil without
\* arguments and a newly allocated array otherwise; called with a slice,
\* SetDashes(dashOffset, s...), it is s itself: no array is allocated, and
\* the canvas shares the array of s with the caller
Variadic(hp, form, dashes) ==
    IF form = "spread" THEN [heap |-> hp, ref |-> dashes]
    ELSE IF dashes = <<>> THEN [heap |-> hp, ref |-> NilSlice]
    ELSE [heap |-> Append(hp, dashes), ref |-> Len(hp) + 1]

SetDashesC(cv, dashOffset, ref) ==
    [cv EXCEPT !.drawState.dashOffset = dashOffset, !.drawState.dashes = ref]

\* an append that puts the new layer first
appendFirst(layers, l) == <<l>> \o layers

\* Go's append(layers, l)
append(layers, l) == Append(layers, l)

\* a DrawPath that stores empty paths too
DrawPathAlways(cv, x, y, path) ==
    [cv EXCEPT !.layers = append(cv.layers, pathLayer(Translate(Copy(path), x, y), cv.drawState))]

DrawPathC(cv, x, y, path) ==
    IF ~Empty(path)
    THEN [cv EXCEPT !.layers = append(cv.layers, pathLayer(Translate(Copy(path), x, y), cv.drawState))]
    ELSE cv

\* a DrawText that keeps only the fonts of the last text
DrawTextFontsLast(fonts, text) == text.fonts

DrawTextFonts(fonts, text) == fonts \cup text.fonts

DrawTextC(cv, x, y, text) ==
    [cv EXCEPT !.fonts = DrawTextFonts(cv.fonts, text),
               !.layers = append(cv.layers, textLayer(text, x, y, 0))]

-----------------------------------------------------------------------------
(* What a writer returns: the tokens written, and whether it panicked *)

Wrote(tokens) == [tokens |-> tokens, panicked |-> FALSE]
Panic(tokens) == [tokens |-> tokens, panicked |-> TRUE]
NoOut == Wrote(<<>>)

\* fill and stroke of a draw state, as every writer decides them
fillActive(ds) == ds.fillColor.A # 0
strokeActive(ds) == ds.strokeColor.A # 0 /\ 0 < ds.strokeWidth

-----------------------------------------------------------------------------
(* pathLayer.WriteSVG *)

svgWidth(ds) ==
    IF ds.strokeWidth # 1 THEN <<Tok("stroke-width", ds.strokeWidth)>> ELSE <<>>

\* a cap test that lets every capper through (an unknown one is drawn butt)
svgCapFallback(capper) == FALSE

svgCapPanics(capper) == capper \notin {RoundCapper, SquareCapper, ButtCapper}

svgCap(capper) ==
    IF capper = RoundCapper THEN <<Tok("stroke-linecap", "round")>>
    ELSE IF capper = SquareCapper THEN <<Tok("stroke-linecap", "square")>>
    ELSE <<>>

svgJoinPanics(joiner) ==
    joiner.type \notin {"bevelJoiner", "roundJoiner", "arcsJoiner", "miterJoiner"}

svgJoin(joiner) ==
    IF joiner.type = "bevelJoiner" THEN <<Tok("stroke-linejoin", "bevel")>>
    ELSE IF joiner.type = "roundJoiner" THEN <<Tok("stroke-linejoin", "round")>>
    ELSE IF joiner.type = "arcsJoiner" THEN <<Tok("stroke-linejoin", "arcs")>>
    ELSE IF joiner.type = "miterJoiner" /\ ~IsNaN(joiner.limit)
         THEN <<Tok("stroke-linejoin", "miter-clip")>>
              \o (IF joiner.limit # Num(4)
                  THEN <<Tok("stroke-miterlimit", joiner.limit.v)>> ELSE <<>>)
    ELSE <<>>

svgDashes(ds, hp) ==
    LET dashes == Deref(hp, ds.dashes)
    IN  IF 0 < Len(dashes)
        THEN <<Tok("stroke-dasharray", dashes)>>
             \o (IF 0 < ds.dashOffset
                 THEN <<Tok("stroke-dashoffset", ds.dashOffset)>> ELSE <<>>)
        ELSE <<>>

\* a fill that is left out when the fill color is transparent
svgFillNoNone(ds, key) ==
    IF ds.fillColor # Black /\ ds.fillColor.A # 0
    THEN <<Tok(key, toCSSColor(ds.fillColor))>>
    ELSE <<>>

\* the fill of a stroked element (a style property) and of an unstroked one
\* (an attribute)
svgFill(ds, key) ==
    IF ds.fillColor # Black
    THEN IF ds.fillColor.A # 0
         THEN <<Tok(key, toCSSColor(ds.fillColor))>>
         ELSE <<Tok(key, "none")>>
    ELSE <<>>

svgFillRule(rule) == IF rule = EvenOdd THEN <<Tok("fill-rule", "evenodd")>> ELSE <<>>

pathLayer_WriteSVG(l, h, rule, hp) ==
    LET p == Translate(Scale(Copy(l.path), 1, -1), 0, h)
        ds == l.drawState
        d == <<Tok("path", ToSVG(p))>>
    IN  IF strokeActive(ds)
        THEN LET t1 == d \o <<Tok("style", "stroke"), Tok("stroke", toCSSColor(ds.strokeColor))>>
                         \o svgWidth(ds)
             IN  IF svgCapPanics(ds.strokeCapper) THEN Panic(t1)
                 ELSE IF svgJoinPanics(ds.strokeJoiner)
                      THEN Panic(t1 \o svgCap(ds.strokeCapper))
                 ELSE Wrote(t1 \o svgCap(ds.strokeCapper) \o svgJoin(ds.strokeJoiner)
                               \o svgDashes(ds, hp) \o svgFill(ds, "fill")
                               \o svgFillRule(rule) \o <<Tok("/>", "")>>)
        ELSE Wrote(d \o svgFill(ds, "fill=") \o <<Tok("/>", "")>>)

textLayer_WriteSVG(l, h) ==
    Wrote(<<Tok("text", [text |-> l.text.name, x |-> l.x, y |-> h - l.y, rot |-> l.rot])>>)

layer_WriteSVG(l, h, rule, hp) ==
    IF l.kind = "pathLayer" THEN pathLayer_WriteSVG(l, h, rule, hp)
    ELSE textLayer_WriteSVG(l, h)

\* the loop over the layers; a panic ends it
RECURSIVE svgLayers(_, _, _, _)
svgLayers(layers, h, rule, hp) ==
    IF layers = <<>> THEN Wrote(<<>>)
    ELSE LET r == layer_WriteSVG(Head(layers), h, rule, hp)
         IN  IF r.panicked THEN r
             ELSE LET rest == svgLayers(Tail(layers), h, rule, hp)
                  IN  [tokens |-> r.tokens \o rest.tokens, panicked |-> rest.panicked]

\* the font-face rules, for the fonts in the order the map iteration gives
svgFonts(order) ==
    IF Len(order) > 0
    THEN <<Tok("defs", "")>> \o [i \in 1..Len(order) |-> Tok("font-face", order[i])]
         \o <<Tok("/defs", "")>>
    ELSE <<>>

C_WriteSVG(cv, rule, hp, order) ==
    LET head == <<Tok("svg", <<cv.w, cv.h, cv.w, cv.h>>)>> \o svgFonts(order)
        r == svgLayers(cv.layers, cv.h, rule, hp)
    IN  IF r.panicked THEN Panic(head \o r.tokens)
        ELSE Wrote(head \o r.tokens \o <<Tok("/svg", "")>>)

-----------------------------------------------------------------------------
(* pathLayer.WritePDF and textLayer.WritePDF *)

\* a test that takes the miter without a length for a joiner PDF can draw
pdfStrokeUnsupportedBounded(joiner) ==
    \/ joiner.type = "arcsJoiner"
    \/ /\ joiner.type = "miterJoiner"
       /\ ~IsNaN(joiner.length) /\ joiner.gapJoiner # "bevelJoiner"

\* the joiners the PDF writer draws as an explicit outline
pdfStrokeUnsupported(joiner) ==
    \/ joiner.type = "arcsJoiner"
    \/ /\ joiner.type = "miterJoiner"
       /\ (IsNaN(joiner.length) \/ joiner.gapJoiner # "bevelJoiner")

pdfDifferentAlpha(ds) ==
    fillActive(ds) /\ strokeActive(ds) /\ ds.fillColor.A # ds.strokeColor.A

pdfEvenOdd(rule) == IF rule = EvenOdd THEN <<Tok("op", "*")>> ELSE <<>>

pdfStrokeSettings(ds, hp) ==
    <<Tok("SetStrokeColor", ds.strokeColor), Tok("SetLineWidth", ds.strokeWidth),
      Tok("SetLineCap", ds.strokeCapper), Tok("SetLineJoin", ds.strokeJoiner),
      Tok("SetDashes", [dashOffset |-> ds.dashOffset, dashes |-> Deref(hp, ds.dashes)])>>

\* the outline of the stroke of a layer, dashed first when it has dashes
strokePath(l, hp) ==
    LET ds == l.drawState
        dashes == Deref(hp, ds.dashes)
        p == IF 0 < Len(dashes) THEN Dash(Copy(l.path), ds.dashOffset, dashes)
             ELSE Copy(l.path)
    IN  Stroke(p, ds.strokeWidth, ds.strokeCapper, ds.strokeJoiner)

\* the branch that draws fill and stroke separately
pdfSeparate(l, rule, hp, data, closed) ==
    LET ds == l.drawState
    IN  <<Tok("SetFillColor", ds.fillColor), Tok("space", ""), Tok("data", data),
          Tok("op", "f")>> \o pdfEvenOdd(rule)
        \o (IF pdfStrokeUnsupported(ds.strokeJoiner)
            THEN <<Tok("SetFillColor", ds.strokeColor), Tok("space", ""),
                   Tok("data", ToPDF(strokePath(l, hp))), Tok("op", "f")>>
                 \o pdfEvenOdd(rule)
            ELSE pdfStrokeSettings(ds, hp)
                 \o <<Tok("space", ""), Tok("data", data),
                      Tok("op", IF closed THEN "s" ELSE "S")>>
                 \o pdfEvenOdd(rule))

\* the branch that draws one path with one paint operator
pdfNative(l, rule, hp, closed) ==
    LET ds == l.drawState
        fill == fillActive(ds)
        stroke == strokeActive(ds)
    IN  (IF fill THEN <<Tok("SetFillColor", ds.fillColor)>> ELSE <<>>)
        \o (IF stroke THEN pdfStrokeSettings(ds, hp) ELSE <<>>)
        \o <<Tok("space", ""), Tok("data", ToPDF(l.path))>>
        \o (IF fill /\ stroke THEN <<Tok("op", IF closed THEN "b" ELSE "B")>>
            ELSE IF fill THEN <<Tok("op", "f")>>
            ELSE <<Tok("op", IF closed THEN "s" ELSE "S")>>)
        \o (IF fill /\ rule = EvenOdd THEN <<Tok("op", "*")>> ELSE <<>>)

pathLayer_WritePDF(l, rule, hp) ==
    LET ds == l.drawState
        data0 == ToPDF(l.path)
        closed == data0.h
        data == IF closed THEN [data0 EXCEPT !.h = FALSE] ELSE data0
    IN  IF ~fillActive(ds) /\ ~strokeActive(ds) THEN <<>>
        ELSE IF pdfDifferentAlpha(ds) \/ pdfStrokeUnsupported(ds.strokeJoiner)
             THEN pdfSeparate(l, rule, hp, data, closed)
             ELSE pdfNative(l, rule, hp, closed)

\* the path layer a text layer draws for the i-th (path, color) of its text
textPathLayer(l, i) ==
    LET pc == ToPaths(l.text)[i]
    IN  pathLayer(Translate(Rotate(pc.path, l.rot), l.x, l.y),
                  [defaultDrawState EXCEPT !.fillColor = pc.color])

RECURSIVE textLayer_WritePDF(_, _, _, _)
textLayer_WritePDF(l, i, rule, hp) ==
    IF i > Len(ToPaths(l.text)) THEN <<>>
    ELSE pathLayer_WritePDF(textPathLayer(l, i), rule, hp)
         \o textLayer_WritePDF(l, i + 1, rule, hp)

layer_WritePDF(l, rule, hp) ==
    IF l.kind = "pathLayer" THEN pathLayer_WritePDF(l, rule, hp)
    ELSE textLayer_WritePDF(l, 1, rule, hp)

RECURSIVE pdfLayers(_, _, _)
pdfLayers(layers, rule, hp) ==
    IF layers = <<>> THEN <<>>
    ELSE layer_WritePDF(Head(layers), rule, hp) \o pdfLayers(Tail(layers), rule, hp)

C_WritePDF(cv, rule, hp) ==
    Wrote(<<Tok("NewPage", <<cv.w, cv.h>>)>> \o pdfLayers(cv.layers, rule, hp)
          \o <<Tok("Close", "")>>)

-----------------------------------------------------------------------------
(* pathLayer.WriteEPS and textLayer.WriteEPS *)

pathLayer_WriteEPS(l) ==
    <<Tok("SetColor", l.drawState.fillColor), Tok("space", ""),
      Tok("data", ToPS(l.path)), Tok("op", "fill")>>

RECURSIVE textLayer_WriteEPS(_, _)
textLayer_WriteEPS(l, i) ==
    IF i > Len(ToPaths(l.text)) THEN <<>>
    ELSE pathLayer_WriteEPS(textPathLayer(l, i)) \o textLayer_WriteEPS(l, i + 1)

layer_WriteEPS(l) ==
    IF l.kind = "pathLayer" THEN pathLayer_WriteEPS(l) ELSE textLayer_WriteEPS(l, 1)

RECURSIVE epsLayers(_)
epsLayers(layers) ==
    IF layers = <<>> THEN <<>>
    ELSE <<Tok("newline", "")>> \o layer_WriteEPS(Head(layers)) \o epsLayers(Tail(layers))

C_WriteEPS(cv) ==
    Wrote(<<Tok("NewEPSWriter", <<cv.w, cv.h>>)>> \o epsLayers(cv.layers))

-----------------------------------------------------------------------------
(* pathLayer.WriteImage and textLayer.WriteImage *)

\* int(len*dpm + 0.5) with dpm = dpi * InchPerMm = dpi / 25.4: the
\* conversion to int drops the fraction, towards zero
Pixels(len, dpi) ==
    LET n == len * dpi * 10 + 127
    IN  IF n >= 0 THEN n \div 254 ELSE -((-n) \div 254)

rasDraw(p, color, dpi, w, h) ==
    Tok("Draw", [size |-> <<Pixels(w, dpi), Pixels(h, dpi)>>,
                 path |-> ToRasterizer(p, dpi, w, h), color |-> color])

pathLayer_WriteImage(l, dpi, w, h, hp) ==
    LET ds == l.drawState
    IN  (IF ds.fillColor.A # 0 THEN <<rasDraw(l.path, ds.fillColor, dpi, w, h)>> ELSE <<>>)
        \o (IF ds.strokeColor.A # 0 /\ 0 < ds.strokeWidth
            THEN <<rasDraw(strokePath(l, hp), ds.strokeColor, dpi, w, h)>> ELSE <<>>)

RECURSIVE textLayer_WriteImage(_, _, _, _, _, _)
textLayer_WriteImage(l, i, dpi, w, h, hp) ==
    IF i > Len(ToPaths(l.text)) THEN <<>>
    ELSE pathLayer_WriteImage(textPathLayer(l, i), dpi, w, h, hp)
         \o textLayer_WriteImage(l, i + 1, dpi, w, h, hp)

layer_WriteImage(l, dpi, w, h, hp) ==
    IF l.kind = "pathLayer" THEN pathLayer_WriteImage(l, dpi, w, h, hp)
    ELSE textLayer_WriteImage(l, 1, dpi, w, h, hp)

RECURSIVE imageLayers(_, _, _, _, _)
imageLayers(layers, dpi, w, h, hp) ==
    IF layers = <<>> THEN <<>>
    ELSE layer_WriteImage(Head(layers), dpi, w, h, hp)
         \o imageLayers(Tail(layers), dpi, w, h, hp)

C_WriteImage(cv, dpi, hp) ==
    Wrote(<<Tok("NewRGBA", <<Pixels(cv.w, dpi), Pixels(cv.h, dpi)>>),
            Tok("Fill", White)>>
          \o imageLayers(cv.layers, dpi, cv.w, cv.h, hp))

-----------------------------------------------------------------------------
(* The inputs of the calls *)

Dims == {<<100, 50>>}
DPIs == {96}
Fonts == {"f1", "f2"}

EmptyPath == Path(0, FALSE)
LinePath == Path(1, FALSE)
RectPath == Path(4, TRUE)
Paths == {EmptyPath, LinePath, RectPath}

PlainText == Text("plain", {"f1"}, <<[path |-> RectPath, color |-> Black]>>)
RichText == Text("rich", {"f1", "f2"},
                 <<[path |-> LinePath, color |-> Red], [path |-> RectPath, color |-> Transparent]>>)
Texts == {PlainText, RichText}

\* the slice s := []float64{2, 1} the caller of the canvas holds, and the
\* assignments s[i] = v it makes, as <<i, v>> with i counted from 1
CallerSlice == 2
CallerWrites == {<<1, 9>>}

\* the calls DrawPath(x, y, path) and DrawText(x, y, text) made in Spec, and
\* the calls of SetDashes: SetDashes(0), SetDashes(1, 2, 1), SetDashes(1, s...)
PathDraws == {<<0, 0, EmptyPath>>, <<3, 4, EmptyPath>>, <<0, 0, LinePath>>, <<3, 4, RectPath>>}
TextDraws == {<<0, 0, PlainText>>, <<3, 4, RichText>>}
DashCalls == {<<0, "args", <<>>>>, <<1, "args", <<2, 1>>>>, <<1, "spread", CallerSlice>>}

\* the values the setters are called with in Spec
SetFillColors == {Red}
SetStrokeColors == {Red}
SetStrokeWidths == {2}
SetCappers == {RoundCapper}
SetJoiners == {BevelJoiner}

\* the orders in which a range over a font set may visit it
Orders(S) ==
    {o \in [1..Cardinality(S) -> S] : \A i, j \in 1..Cardinality(S) : o[i] = o[j] => i = j}

-----------------------------------------------------------------------------
(* The calls *)

Call(name, args) == [name |-> name, args |-> args]

\* the heap when the canvas is made: the array of defaultDrawState.dashes,
\* allocated at package initialisation, and the array of the caller's slice
InitHeap == << <<>>, <<2, 1>> >>

SetFillColor ==
    /\ nsets < MaxSets
    /\ \E color \in SetFillColors :
          /\ c' = SetFillColorC(c, color)
          /\ op' = Call("SetFillColor", <<color>>)
    /\ out' = NoOut /\ nsets' = nsets + 1
    /\ UNCHANGED <<FillRule, heap>>

SetStrokeColor ==
    /\ nsets < MaxSets
    /\ \E color \in SetStrokeColors :
          /\ c' = SetStrokeColorC(c, color)
          /\ op' = Call("SetStrokeColor", <<color>>)
    /\ out' = NoOut /\ nsets' = nsets + 1
    /\ UNCHANGED <<FillRule, heap>>

SetStrokeWidth ==
    /\ nsets < MaxSets
    /\ \E width \in SetStrokeWidths :
          /\ c' = SetStrokeWidthC(c, width)
          /\ op' = Call("SetStrokeWidth", <<width>>)
    /\ out' = NoOut /\ nsets' = nsets + 1
    /\ UNCHANGED <<FillRule, heap>>

SetStrokeCapper ==
    /\ nsets < MaxSets
    /\ \E capper \in SetCappers :
          /\ c' = SetStrokeCapperC(c, capper)
          /\ op' = Call("SetStrokeCapper", <<capper>>)
    /\ out' = NoOut /\ nsets' = nsets + 1
    /\ UNCHANGED <<FillRule, heap>>

SetStrokeJoiner ==
    /\ nsets < MaxSets
    /\ \E joiner \in SetJoiners :
          /\ c' = SetStrokeJoinerC(c, joiner)
          /\ op' = Call("SetStrokeJoiner", <<joiner>>)
    /\ out' = NoOut /\ nsets' = nsets + 1
    /\ UNCHANGED <<FillRule, heap>>

SetDashes ==
    /\ nsets < MaxSets
    /\ \E call \in DashCalls :
          /\ heap' = Variadic(heap, call[2], call[3]).heap
          /\ c' = SetDashesC(c, call[1], Variadic(heap, call[2], call[3]).ref)
          /\ op' = Call("SetDashes", call)
    /\ out' = NoOut /\ nsets' = nsets + 1
    /\ UNCHANGED FillRule

\* the caller's assignment s[i] = v to an element of its slice
WriteSlice ==
    /\ nsets < MaxSets
    /\ \E w \in CallerWrites :
          /\ heap' = [heap EXCEPT ![CallerSlice][w[1]] = w[2]]
          /\ op' = Call("WriteSlice", w)
    /\ out' = NoOut /\ nsets' = nsets + 1
    /\ UNCHANGED <<c, FillRule>>

DrawPath ==
    /\ Len(c.layers) < MaxLayers
    /\ \E call \in PathDraws :
          /\ c' = DrawPathC(c, call[1], call[2], call[3])
          /\ op' = Call("DrawPath", call)
    /\ out' = NoOut
    /\ UNCHANGED <<FillRule, heap, nsets>>

DrawText ==
    /\ Len(c.layers) < MaxLayers
    /\ \E call \in TextDraws :
          /\ c' = DrawTextC(c, call[1], call[2], call[3])
          /\ op' = Call("DrawText", call)
    /\ out' = NoOut
    /\ UNCHANGED <<FillRule, heap, nsets>>

\* an assignment to the package-level variable FillRule
SetFillRule ==
    /\ FillRule' \in {NonZero, EvenOdd} \ {FillRule}
    /\ op' = Call("SetFillRule", <<FillRule'>>) /\ out' = NoOut
    /\ UNCHANGED <<c, heap, nsets>>

WriteSVG ==
    /\ \E order \in Orders(c.fonts) : out' = C_WriteSVG(c, FillRule, heap, order)
    /\ op' = Call("WriteSVG", <<>>)
    /\ UNCHANGED <<c, FillRule, heap, nsets>>

WritePDF ==
    /\ out' = C_WritePDF(c, FillRule, heap)
    /\ op' = Call("WritePDF", <<>>)
    /\ UNCHANGED <<c, FillRule, heap, nsets>>

WriteEPS ==
    /\ out' = C_WriteEPS(c)
    /\ op' = Call("WriteEPS", <<>>)
    /\ UNCHANGED <<c, FillRule, heap, nsets>>

WriteImage ==
    /\ \E dpi \in DPIs :
          /\ out' = C_WriteImage(c, dpi, heap)
          /\ op' = Call("WriteImage", <<dpi>>)
    /\ UNCHANGED <<c, FillRule, heap, nsets>>

-----------------------------------------------------------------------------
(* Spec: a canvas from New on, under every sequence of calls *)

Init ==
    /\ \E d \in Dims :
          /\ c = New(d[1], d[2])
          /\ op = Call("New", d)
    /\ FillRule = NonZero
    /\ heap = InitHeap
    /\ out = NoOut
    /\ nsets = 0

Next ==
    \/ SetFillColor
    \/ SetStrokeColor
    \/ SetStrokeWidth
    \/ SetStrokeCapper
    \/ SetStrokeJoiner
    \/ SetDashes
    \/ WriteSlice
    \/ DrawPath
    \/ DrawText
    \/ WriteSVG
    \/ WritePDF
    \/ WriteEPS
    \/ WriteImage

Spec == Init /\ [][Next]_vars

-----------------------------------------------------------------------------
(* SpecExport: the exports of a canvas right after a DrawPath, for every    *)
(* draw state the setters can have built                                   *)

ExportFillColors == {Black, Transparent, Red, HalfBlue}
ExportStrokeColors == {Transparent, Red, HalfBlue}
ExportWidths == {0, 1, 2}
ExportCappers == {ButtCapper, RoundCapper, SquareCapper, CustomCapper}
\* the joiners of the package, and miter joiners whose limit and length
\* differ in being NaN
ExportJoiners ==
    {MiterJoiner, MiterClipJoiner("bevelJoiner", 4), MiterClipJoiner("bevelJoiner", 2),
     MiterClipJoiner("roundJoiner", 4), miterJoiner("roundJoiner", NaN, NaN),
     miterJoiner("bevelJoiner", Num(4), NaN), miterJoiner("bevelJoiner", NaN, Num(4)),
     BevelJoiner, RoundJoiner, ArcsJoiner, CustomJoiner}

\* the heap after one call SetDashes(_, 2, 1), and the dash settings over it
ExportHeap == Variadic(InitHeap, "args", <<2, 1>>).heap
ExportDashes ==
    {[dashOffset |-> 0, dashes |-> DefaultDashes],
     [dashOffset |-> 0, dashes |-> Len(ExportHeap)],
     [dashOffset |-> 1, dashes |-> Len(ExportHeap)]}

ExportDrawStates ==
    {[fillColor |-> f, strokeColor |-> s, strokeWidth |-> w, strokeCapper |-> cap,
      strokeJoiner |-> j, dashOffset |-> d.dashOffset, dashes |-> d.dashes] :
        f \in ExportFillColors, s \in ExportStrokeColors, w \in ExportWidths,
        cap \in ExportCappers, j \in ExportJoiners, d \in ExportDashes}

\* the canvases the last DrawPath is made on: a new one, and ones with a layer
Before(d) ==
    {New(d[1], d[2]),
     DrawPathC(SetStrokeJoinerC(SetStrokeColorC(New(d[1], d[2]), Red), BevelJoiner),
               0, 0, LinePath),
     DrawPathC(SetStrokeCapperC(SetStrokeColorC(New(d[1], d[2]), Red), CustomCapper),
               3, 4, RectPath),
     DrawTextC(New(d[1], d[2]), 3, 4, RichText)}

InitExport ==
    /\ \E d \in Dims, ds \in ExportDrawStates, path \in {LinePath, RectPath} :
          \E before \in Before(d) :
             /\ c = DrawPathC([before EXCEPT !.drawState = ds], 3, 4, path)
             /\ op = Call("DrawPath", <<3, 4, path>>)
    /\ FillRule = NonZero
    /\ heap = ExportHeap
    /\ out = NoOut
    /\ nsets = 0

NextExport ==
    \/ SetFillRule
    \/ WriteSVG
    \/ WritePDF
    \/ WriteEPS
    \/ WriteImage

SpecExport == InitExport /\ [][NextExport]_vars

-----------------------------------------------------------------------------
(* Properties of the layer stack, under Spec *)

IsPrefix(s, t) == Len(s) <= Len(t) /\ \A i \in 1..Len(s) : t[i] = s[i]

Exports == {"WriteSVG", "WritePDF", "WriteEPS", "WriteImage"}

\* the draw state by value: the dash slice replaced by its contents
ByValue(ds, hp) == [ds EXCEPT !.dashes = Deref(hp, @)]

PathLayerAt(cv, i) == i \in 1..Len(cv.layers) /\ cv.layers[i].kind = "pathLayer"

\* C1: DrawPath(x, y, P) with an empty P leaves the layers as they are, for
\* every x and y; with a non-empty P it appends exactly one path layer, which
\* holds P translated by (x, y).
C1_EmptyPathDropped ==
    [][op'.name = "DrawPath" =>
         IF Empty(op'.args[3])
         THEN c'.layers = c.layers
         ELSE /\ Len(c'.layers) = Len(c.layers) + 1
              /\ IsPrefix(c.layers, c'.layers)
              /\ c'.layers[Len(c'.layers)].kind = "pathLayer"
              /\ c'.layers[Len(c'.layers)].path = Translate(op'.args[3], op'.args[1], op'.args[2])
              /\ ~Empty(c'.layers[Len(c'.layers)].path)]_vars

\* an empty path was drawn at a position other than the origin on a canvas
\* that holds a layer
C1_Witness ==
    /\ op.name = "DrawPath" /\ Empty(op.args[3]) /\ op.args[1] # 0
    /\ Len(c.layers) = 1

\* a step takes to every new path layer the current draw state, by value,
\* and leaves the draw state, by value, of every recorded path layer as it is
SnapshotsKept ==
    /\ \A i \in 1..Len(c.layers) :
          PathLayerAt(c, i) =>
             /\ PathLayerAt(c', i)
             /\ ByValue(c'.layers[i].drawState, heap') = ByValue(c.layers[i].drawState, heap)
    /\ (op'.name = "DrawPath" /\ ~Empty(op'.args[3])) =>
          ByValue(c'.layers[Len(c'.layers)].drawState, heap') = ByValue(c.drawState, heap)

\* C2: every path layer holds a snapshot by value of the draw state (the dash
\* pattern included) that was current at its DrawPath call, and the snapshot
\* of a layer that is recorded is never changed afterwards.
C2_SnapshotFrozen == [][SnapshotsKept]_vars

\* what holds of the snapshots: the calls of the canvas keep them, and no
\* step changes a field of a recorded layer other than the contents of the
\* array of its dashes
C2_CallsKeepSnapshots ==
    [][/\ op'.name # "WriteSlice" => SnapshotsKept
       /\ \A i \in 1..Len(c.layers) : c'.layers[i] = c.layers[i]]_vars

\* a recorded layer whose dashes are the caller's slice, after the caller
\* wrote to the slice
C2_Aliased ==
    /\ op.name = "WriteSlice"
    /\ \E i \in 1..Len(c.layers) :
          /\ PathLayerAt(c, i)
          /\ c.layers[i].drawState.dashes = CallerSlice
          /\ Deref(heap, c.layers[i].drawState.dashes) # <<2, 1>>

\* C3: every call leaves the layers a prefix of what they become and adds at
\* most one layer; only DrawPath and DrawText add one; the four exports leave
\* layers, draw state, fonts and dimensions (and the dash arrays) unchanged.
C3_AppendOnly ==
    [][/\ IsPrefix(c.layers, c'.layers)
       /\ Len(c'.layers) <= Len(c.layers) + 1
       /\ (c'.layers # c.layers => op'.name \in {"DrawPath", "DrawText"})
       /\ (op'.name \in Exports => c' = c /\ heap' = heap)]_vars

\* an export was made of a canvas with two layers
C3_Witness == op.name \in Exports /\ Len(c.layers) = 2 /\ Len(out.tokens) > 2

\* the fonts of the text layers of a canvas
TextFonts(cv) ==
    UNION {cv.layers[i].text.fonts : i \in {j \in 1..Len(cv.layers) : cv.layers[j].kind = "textLayer"}}

\* the positions of the tokens of kind k
Positions(tokens, k) == {i \in 1..Len(tokens) : tokens[i].k \in k}

\* C10: the font set is the set of the fonts of the recorded text layers;
\* DrawText adds the fonts of its text and appends one text layer at (x, y)
\* with rotation 0; DrawPath leaves the fonts alone; WriteSVG writes one
\* font-face rule per font, all before the first layer element.
C10_FontSet ==
    /\ [](c.fonts = TextFonts(c))
    /\ [](op.name = "WriteSVG" =>
            /\ \A f \in c.fonts :
                  Cardinality({i \in Positions(out.tokens, {"font-face"}) : out.tokens[i].v = f}) = 1
            /\ \A i \in Positions(out.tokens, {"font-face"}) : out.tokens[i].v \in c.fonts
            /\ \A i \in Positions(out.tokens, {"font-face"}), j \in Positions(out.tokens, {"path", "text"}) :
                  i < j)
    /\ [][/\ op'.name = "DrawText" =>
               /\ c'.fonts = c.fonts \cup op'.args[3].fonts
               /\ (op'.args[3].fonts \subseteq c.fonts => c'.fonts = c.fonts)
               /\ c'.layers = Append(c.layers, textLayer(op'.args[3], op'.args[1], op'.args[2], 0))
          /\ op'.name = "DrawPath" => c'.fonts = c.fonts]_vars

\* a canvas with two texts that share a font was exported to SVG
C10_Witness ==
    /\ op.name = "WriteSVG"
    /\ Cardinality(c.fonts) = 2
    /\ Len(c.layers) = 2 /\ \A i \in 1..2 : c.layers[i].kind = "textLayer"
    /\ c.layers[1].text # c.layers[2].text

-----------------------------------------------------------------------------
(* Properties of the exports, under SpecExport *)

FillOn(ds) == ds.fillColor.A # 0
StrokeOn(ds) == ds.strokeColor.A # 0 /\ ds.strokeWidth > 0

PathLayerIndexes == {i \in 1..Len(c.layers) : c.layers[i].kind = "pathLayer"}

RECURSIVE SumTo(_, _)
SumTo(f, n) == IF n = 0 THEN 0 ELSE f[n] + SumTo(f, n - 1)

\* the tokens of out.tokens that layer i wrote, when every layer j wrote
\* len[j] tokens after a header of hdr tokens
LayerTokens(hdr, len, i) ==
    SubSeq(out.tokens, hdr + 1 + SumTo(len, i - 1), hdr + SumTo(len, i))

PdfTokens(i) ==
    LayerTokens(1, [j \in 1..Len(c.layers) |-> Len(layer_WritePDF(c.layers[j], FillRule, heap))], i)

EpsTokens(i) ==
    LayerTokens(1, [j \in 1..Len(c.layers) |-> 1 + Len(layer_WriteEPS(c.layers[j]))], i)

ImageTokens(i) ==
    LayerTokens(2, [j \in 1..Len(c.layers) |->
                      Len(layer_WriteImage(c.layers[j], op.args[1], c.w, c.h, heap))], i)

PaintOperators == {"f", "s", "S", "b", "B", "fill"}
IsPaint(t) == t.k = "op" /\ t.v \in PaintOperators
PaintOps(tokens) == Cardinality({j \in 1..Len(tokens) : IsPaint(tokens[j])})
DataTokens(tokens) == Cardinality(Positions(tokens, {"data"}))

\* C4 as the specification states it: a joiner is unsupported when it is arcs
\* or a miter with a finite limit whose gap joiner is not bevel
SpecUnsupported(j) ==
    \/ j.type = "arcsJoiner"
    \/ j.type = "miterJoiner" /\ ~j.limit.nan /\ j.gapJoiner # "bevelJoiner"

\* and as amended: arcs, the miter without a finite length (the limit value
\* the PDF writer reads), and a miter whose gap joiner is not bevel
AmendedUnsupported(j) ==
    \/ j.type = "arcsJoiner"
    \/ j.type = "miterJoiner" /\ (j.length.nan \/ j.gapJoiner # "bevelJoiner")

DifferentAlpha(ds) == FillOn(ds) /\ StrokeOn(ds) /\ ds.fillColor.A # ds.strokeColor.A

\* C4 (as claimed): in the PDF export a path layer with an active paint is
\* written with two paint operators iff its joiner is arcs or a finite miter
\* with a non-bevel gap joiner, or fill and stroke are both active with
\* different alphas; otherwise with one path and one paint operator.
C4_Original ==
    op.name = "WritePDF" =>
       \A i \in PathLayerIndexes :
          LET ds == c.layers[i].drawState
          IN  (FillOn(ds) \/ StrokeOn(ds)) =>
                 IF SpecUnsupported(ds.strokeJoiner) \/ DifferentAlpha(ds)
                 THEN PaintOps(PdfTokens(i)) = 2 /\ DataTokens(PdfTokens(i)) = 2
                 ELSE PaintOps(PdfTokens(i)) = 1 /\ DataTokens(PdfTokens(i)) = 1

\* C4 (amended): the same with the unsupported joiners being arcs, the miter
\* without a finite length, and every miter whose gap joiner is not bevel; so
\* a bevel or round joiner, or a miter with a finite length and a bevel gap
\* joiner, gives the one native operator when the alphas do not differ, and
\* the miter without a finite length gives two paint operators.
C4_PdfTwoPass ==
    op.name = "WritePDF" =>
       \A i \in PathLayerIndexes :
          LET ds == c.layers[i].drawState
          IN  (FillOn(ds) \/ StrokeOn(ds)) =>
                 IF AmendedUnsupported(ds.strokeJoiner) \/ DifferentAlpha(ds)
                 THEN PaintOps(PdfTokens(i)) = 2 /\ DataTokens(PdfTokens(i)) = 2
                 ELSE PaintOps(PdfTokens(i)) = 1 /\ DataTokens(PdfTokens(i)) = 1

\* a PDF export of a layer with a miter whose length is NaN and whose limit
\* is finite, with a bevel gap joiner and equal alphas, written with two
\* paint operators, beside a layer written with one
C4_Witness ==
    /\ op.name = "WritePDF"
    /\ \E i \in PathLayerIndexes :
          LET ds == c.layers[i].drawState
          IN  /\ ds.strokeJoiner = miterJoiner("bevelJoiner", Num(4), NaN)
              /\ FillOn(ds) /\ StrokeOn(ds)
              /\ ds.fillColor.A = ds.strokeColor.A
              /\ PaintOps(PdfTokens(i)) = 2
    /\ \E i \in PathLayerIndexes :
          LET ds == c.layers[i].drawState
          IN  /\ ds.strokeJoiner.type = "bevelJoiner" /\ FillOn(ds) /\ StrokeOn(ds)
              /\ PaintOps(PdfTokens(i)) = 1

\* the paints of a layer's tokens: a stroke is a stroke operator or a painted
\* stroke outline, a fill is a fill operator on the path itself
IsOutline(t) ==
    \/ t.k = "data" /\ "pdf" \in DOMAIN t.v /\ "stroke" \in DOMAIN t.v.pdf
    \/ t.k = "data" /\ "ps" \in DOMAIN t.v /\ "stroke" \in DOMAIN t.v.ps
    \/ t.k = "Draw" /\ "stroke" \in DOMAIN t.v.path.ras
StrokePainted(tokens) ==
    \E j \in 1..Len(tokens) :
       \/ IsOutline(tokens[j])
       \/ tokens[j].k = "SetStrokeColor"
       \/ tokens[j].k = "op" /\ tokens[j].v \in {"s", "S", "b", "B"}
FillPainted(tokens) ==
    \E j \in 1..Len(tokens) :
       \/ tokens[j].k = "Draw" /\ ~IsOutline(tokens[j])
       \/ /\ tokens[j].k = "data" /\ ~IsOutline(tokens[j])
          /\ j < Len(tokens) /\ tokens[j + 1].k = "op" /\ tokens[j + 1].v \in {"f", "b", "B"}

\* C5: in the PDF and the raster export a path layer is painted in its fill
\* color only if its fill is active, and its stroke (a stroke operator or a
\* filled stroke outline) only if its stroke is active.
C5_PaintOnlyIfActive ==
    /\ op.name = "WritePDF" =>
          \A i \in PathLayerIndexes :
             /\ StrokePainted(PdfTokens(i)) => StrokeOn(c.layers[i].drawState)
             /\ FillPainted(PdfTokens(i)) => FillOn(c.layers[i].drawState)
    /\ op.name = "WriteImage" =>
          \A i \in PathLayerIndexes :
             /\ StrokePainted(ImageTokens(i)) => StrokeOn(c.layers[i].drawState)
             /\ FillPainted(ImageTokens(i)) => FillOn(c.layers[i].drawState)

\* what holds of the raster export: each paint is drawn iff it is active
C5_RasterOnly ==
    op.name = "WriteImage" =>
       \A i \in PathLayerIndexes :
          /\ StrokePainted(ImageTokens(i)) <=> StrokeOn(c.layers[i].drawState)
          /\ FillPainted(ImageTokens(i)) <=> FillOn(c.layers[i].drawState)

\* the tokens of the i-th element of an SVG output: from the i-th token that
\* opens a path or a text to the token before the next one (or before </svg>)
ElementStarts(tokens) == Positions(tokens, {"path", "text"})
ElementStart(tokens, i) ==
    CHOOSE p \in ElementStarts(tokens) :
       Cardinality({q \in ElementStarts(tokens) : q < p}) = i - 1
Element(tokens, i) ==
    LET from == ElementStart(tokens, i)
        later == {q \in ElementStarts(tokens) \cup Positions(tokens, {"/svg"}) : q > from}
        to == IF later = {} THEN Len(tokens)
              ELSE (CHOOSE q \in later : \A r \in later : q <= r) - 1
    IN  SubSeq(tokens, from, to)
Keys(tokens) == {tokens[j].k : j \in 1..Len(tokens)}

StrokeKeys ==
    {"style", "stroke", "stroke-width", "stroke-linecap", "stroke-linejoin",
     "stroke-miterlimit", "stroke-dasharray", "stroke-dashoffset"}
FillKeys == {"fill", "fill="}

\* C6: an SVG export that ends normally writes one element per layer, in
\* layer order, a path element for every path layer; the element of a path
\* layer has stroke properties only if the stroke is active, and then the
\* stroke color; it has a fill iff the fill color is not opaque black; a
\* path filled red with an inactive stroke is the path, fill="red", and
\* nothing else.
C6_SvgPathElements ==
    (op.name = "WriteSVG" /\ ~out.panicked) =>
       /\ Cardinality(ElementStarts(out.tokens)) = Len(c.layers)
       /\ Cardinality(Positions(out.tokens, {"path"})) = Cardinality(PathLayerIndexes)
       /\ \A i \in PathLayerIndexes :
             LET e == Element(out.tokens, i)
                 ds == c.layers[i].drawState
             IN  /\ e[1].k = "path"
                 /\ e[1].v = ToSVG(Translate(Scale(c.layers[i].path, 1, -1), 0, c.h))
                 /\ e[Len(e)].k = "/>"
                 /\ Cardinality(Positions(e, {"/>"})) = 1
                 /\ (Keys(e) \cap StrokeKeys # {} => StrokeOn(ds))
                 /\ (StrokeOn(ds) =>
                       \E j \in 1..Len(e) :
                          e[j].k = "stroke" /\ e[j].v = toCSSColor(ds.strokeColor))
                 /\ (Keys(e) \cap FillKeys # {} <=> ds.fillColor # Black)
                 /\ (ds.fillColor = Red /\ ~StrokeOn(ds) =>
                       /\ Len(e) = 3
                       /\ e[2].k = "fill=" /\ e[2].v = toCSSColor(Red))

\* the SVG export of a canvas with one closed path, filled red, with the
\* default stroke
C6_Witness ==
    /\ op.name = "WriteSVG" /\ ~out.panicked
    /\ Len(c.layers) = 1 /\ c.layers[1].kind = "pathLayer" /\ c.layers[1].path.closed
    /\ c.layers[1].drawState.fillColor = Red
    /\ c.layers[1].drawState.strokeColor = Transparent
    /\ c.layers[1].drawState.strokeWidth = 1
    /\ Len(out.tokens) = 5

CapperKnown(capper) == capper \in {ButtCapper, RoundCapper, SquareCapper}
JoinerKnown(joiner) ==
    joiner.type \in {"miterJoiner", "roundJoiner", "bevelJoiner", "arcsJoiner"}

\* C7 (as claimed): the SVG export panics iff some path layer has a capper
\* outside {butt, round, square} or a joiner outside {miter, round, bevel,
\* arcs}.
C7_Original ==
    op.name = "WriteSVG" =>
       (out.panicked <=>
          \E i \in PathLayerIndexes :
             \/ ~CapperKnown(c.layers[i].drawState.strokeCapper)
             \/ ~JoinerKnown(c.layers[i].drawState.strokeJoiner))

\* the path layers whose stroke is active and whose capper or joiner is
\* outside the sets
Offending ==
    {i \in PathLayerIndexes :
        /\ StrokeOn(c.layers[i].drawState)
        /\ \/ ~CapperKnown(c.layers[i].drawState.strokeCapper)
           \/ ~JoinerKnown(c.layers[i].drawState.strokeJoiner)}

\* C7 (amended): the SVG export panics iff some path layer with an active
\* stroke has such a capper or joiner; it then stops inside the element of
\* the first such layer, writing no cap or join for it; an export that does
\* not panic writes no cap or join property for a capper or joiner outside
\* the sets.
C7_SvgAborts ==
    op.name = "WriteSVG" =>
       /\ out.panicked <=> Offending # {}
       /\ out.panicked =>
             LET first == CHOOSE i \in Offending : \A j \in Offending : i <= j
                 e == Element(out.tokens, first)
             IN  /\ Cardinality(ElementStarts(out.tokens)) = first
                 /\ "/>" \notin Keys(e) /\ "/svg" \notin Keys(out.tokens)
                 /\ ~CapperKnown(c.layers[first].drawState.strokeCapper) =>
                       "stroke-linecap" \notin Keys(e)
                 /\ "stroke-linejoin" \notin Keys(e)
       /\ ~out.panicked =>
             /\ out.tokens[Len(out.tokens)].k = "/svg"
             /\ \A i \in PathLayerIndexes :
                   /\ ~CapperKnown(c.layers[i].drawState.strokeCapper) =>
                         "stroke-linecap" \notin Keys(Element(out.tokens, i))
                   /\ ~JoinerKnown(c.layers[i].drawState.strokeJoiner) =>
                         "stroke-linejoin" \notin Keys(Element(out.tokens, i))

\* an SVG export that panicked in its second layer, on a capper outside the
\* set, after writing the first layer, which has such a capper too but no
\* active stroke
C7_Witness ==
    /\ op.name = "WriteSVG" /\ out.panicked
    /\ Len(c.layers) = 2 /\ Offending = {2}
    /\ c.layers[2].drawState.strokeCapper = CustomCapper
    /\ Cardinality(ElementStarts(out.tokens)) = 2

\* C8: the EPS export paints, for every path layer whose stroke is active,
\* the outline of the stroke in the stroke color.
C8_EpsStrokeOutline ==
    op.name = "WriteEPS" =>
       \A i \in PathLayerIndexes :
          StrokeOn(c.layers[i].drawState) =>
             \E j \in 1..Len(EpsTokens(i)) - 3 :
                /\ EpsTokens(i)[j].k = "SetColor"
                /\ EpsTokens(i)[j].v = c.layers[i].drawState.strokeColor
                /\ IsOutline(EpsTokens(i)[j + 2])
                /\ IsPaint(EpsTokens(i)[j + 3])

\* the EPS export paints every path layer as one fill of the path in the fill
\* color, in layer order, whatever the draw state
C8_EpsFillOnly ==
    op.name = "WriteEPS" =>
       /\ ~out.panicked
       /\ \A i \in PathLayerIndexes :
             EpsTokens(i) = <<Tok("newline", ""), Tok("SetColor", c.layers[i].drawState.fillColor),
                              Tok("space", ""), Tok("data", ToPS(c.layers[i].path)),
                              Tok("op", "fill")>>

\* the number of fill-rule markers the SVG and the PDF export write for the
\* layers of a canvas
FillRuleMarkers(cv, rule, hp) ==
    LET svg == svgLayers(cv.layers, cv.h, rule, hp).tokens
        pdf == pdfLayers(cv.layers, rule, hp)
    IN  <<Cardinality(Positions(svg, {"fill-rule"})),
          Cardinality({j \in 1..Len(pdf) : pdf[j].k = "op" /\ pdf[j].v = "*"})>>

\* C9: the fill-rule markers an export writes for the recorded layers do not
\* depend on the setting of FillRule at the export: an assignment to
\* FillRule leaves them as they are.
C9_FillRuleInSnapshot ==
    [][(op'.name = "SetFillRule" /\ c' = c) =>
          FillRuleMarkers(c', FillRule', heap') = FillRuleMarkers(c, FillRule, heap)]_vars

====
